---------------------------- MODULE Spec2Model ----------------------------
(***************************************************************************)
(* Model of bevy-tick-timers (src/src/lib.rs): the 64-slot TimingWheel,    *)
(* the four-level Timers scheduler built from it, and the two operations   *)
(* Timers::after, Timers::now and Timers::tick, and the RunTimers stage     *)
(* that ticks the scheduler and runs the due timers once per update.       *)
(*                                                                         *)
(* A timer (a boxed Stage in the source) is represented by the ordinal of  *)
(* the Timers::after call that created it: 1 for the first call, 2 for the *)
(* second, and so on.  usize is 64 bits wide; every value the model        *)
(* handles stays far below 2^31, so no arithmetic of the source wraps.     *)
(***************************************************************************)
EXTENDS Integers, Sequences, FiniteSets, TLC

\* const MAX_INTERVAL: usize = 64;
MAX_INTERVAL == 64

\* ------------------------------------------------------------------ bounds
\* Number of Timers::after calls in one behaviour.
MaxItems == 2
\* Number of Timers::tick calls in one behaviour of Spec.
MaxTicks == 104
\* Timers::after is called only when this many ticks have elapsed since Init.
SchedTicks == {0, 1}
\* Delays handed to Timers::after in Spec and LiveSpec.
Delays == {0, 1, 3, 63, 64, 100, 2048, 8388671, 16777216}
LiveDelays == {63, 64, 8388608}
\* Delays handed to Timers::after in RouteSpec: both sides of every level
\* boundary, the capacity boundary, and values far beyond it.
RouteDelays ==
    {0, 1, 31, 32, 63, 64, 100, 2047, 2048, 4095, 4096, 131071, 131072,
     262143, 262144, 8388607, 8388608, 16777215, 16777216, 16777217,
     1073741824}
\* Init is the scheduler after this many Timers::tick calls on a freshly
\* constructed, never scheduled Timers: 0 is the fresh scheduler, the
\* others put level 0, levels 0-1 and levels 0-2 one tick before a wrap.
StartTicks == {0, 63, 4095, 262143}

VARIABLES
    level_0, level_1, level_2, level_3,  \* Timers' four TimingWheels
    now,        \* history: number of Timers::tick calls since Init
    sched,      \* history: the Timers::after calls, in call order
    delivered,  \* history: delivered[i] = the tick calls that returned timer i
    out,        \* the value returned by the last Timers::tick call
    panicked,   \* Timers::after hit panic!("timer interval too long")
    viaNow,     \* history: the timers scheduled through Timers::now
    drains,     \* history: drains[i] = the levels timer i was drained from
    span,       \* history: the current revolution of level 0's cursor
    curr_timers,  \* RunTimers::curr_timers
    lastRun,    \* history: the timers the last RunTimers::run call ran
    ran,        \* history: ran[i] = the updates in which timer i was run
    phase       \* the host's position in its update: "ran" or "initialized"

\* The histories of Timers, and the RunTimers stage with its histories.
hist == <<viaNow, drains, span>>
host == <<curr_timers, lastRun, ran, phase>>

vars == <<level_0, level_1, level_2, level_3, now, sched, delivered, out,
          panicked, viaNow, drains, span, curr_timers, lastRun, ran, phase>>

\* The Timers struct as one value.
Timers ==
    [level_0 |-> level_0, level_1 |-> level_1,
     level_2 |-> level_2, level_3 |-> level_3]

\* ------------------------------------------------------------ TimingWheel
\* impl Default for TimingWheel: every slot an empty Vec, current_tick 0
\* (here with the cursor the wheel has after n idle Timers::tick calls).
\* The source fills the array through a transmuted MaybeUninit pointer of
\* element type Vec<Box<dyn Stage>>; an empty Vec of that type has the same
\* size, alignment and representation as an empty Vec of pairs, so all 64
\* slots are written and each is an empty Vec.
TimingWheel(cursor) ==
    [current_tick |-> cursor, ring |-> [i \in 0 .. MAX_INTERVAL - 1 |-> <<>>]]

\* Faulty variants of TimingWheel::schedule: one indexes the ring from slot
\* 0 instead of from the cursor, the other inserts at the front of the slot.
WheelSchedule_IgnoresCursor(self, offset, ticks, timer) ==
    LET index == offset % MAX_INTERVAL
    IN  [self EXCEPT !.ring[index] = Append(@, <<ticks, timer>>)]

WheelSchedule_Prepends(self, offset, ticks, timer) ==
    LET index == (self.current_tick + offset) % MAX_INTERVAL
    IN  [self EXCEPT !.ring[index] = <<(<<ticks, timer>>)>> \o @]

\* TimingWheel::schedule
WheelSchedule(self, offset, ticks, timer) ==
    LET index == (self.current_tick + offset) % MAX_INTERVAL
    IN  [self EXCEPT !.ring[index] = Append(@, <<ticks, timer>>)]

\* TimingWheel::tick returning a copy of the slot and leaving it filled.
WheelTick_KeepsSlot(self) ==
    [timers |-> self.ring[self.current_tick],
     wheel  |-> [current_tick |-> (self.current_tick + 1) % MAX_INTERVAL,
                 ring |-> self.ring]]

\* TimingWheel::tick: the drained slot and the wheel afterwards.
WheelTick(self) ==
    [timers |-> self.ring[self.current_tick],
     wheel  |-> [current_tick |-> (self.current_tick + 1) % MAX_INTERVAL,
                 ring |-> [self.ring EXCEPT ![self.current_tick] = <<>>]]]

\* ----------------------------------------------------------------- Timers
\* usize::leading_zeros on a 64-bit usize.
RECURSIVE BitLength(_)
BitLength(x) == IF x = 0 THEN 0 ELSE 1 + BitLength(x \div 2)

LeadingZeros(x) == 64 - BitLength(x)

\* usize >> n
Shr(x, n) == x \div (2 ^ n)

\* Faulty variants of the level computation: one clamps an oversized delay
\* into level 3 instead of letting the match panic, the other divides the
\* bit length instead of the index of the highest set bit.
AfterLevel_Clamped(after) ==
    IF after = 0
    THEN 0
    ELSE IF (63 - LeadingZeros(after)) \div 6 > 3
         THEN 3
         ELSE (63 - LeadingZeros(after)) \div 6

AfterLevel_BitLength(after) ==
    IF after = 0 THEN 0 ELSE BitLength(after) \div 6

\* Timers::after: let level = if after == 0 { 0 } else { (63 - lz) / 6 }
AfterLevel(after) ==
    IF after = 0 THEN 0 ELSE (63 - LeadingZeros(after)) \div 6

\* Timers::after: the offset handed to TimingWheel::schedule.  In Rust the
\* binary minus binds tighter than the shift: after >> 6 - 1 is after >> 5.
AfterOffset(level, after) ==
    CASE level = 0 -> after
      [] level = 1 -> Shr(after, 6 - 1)
      [] level = 2 -> Shr(after, 12 - 1)
      [] level = 3 -> Shr(after, 18 - 1)

\* Timers::after: the match on level; the last arm panics.
TimersAfter(self, after, timer) ==
    LET level == AfterLevel(after)
    IN  CASE level = 0 ->
               [panic |-> FALSE,
                self  |-> [self EXCEPT !.level_0 =
                             WheelSchedule(@, AfterOffset(0, after), after, timer)]]
          [] level = 1 ->
               [panic |-> FALSE,
                self  |-> [self EXCEPT !.level_1 =
                             WheelSchedule(@, AfterOffset(1, after), after, timer)]]
          [] level = 2 ->
               [panic |-> FALSE,
                self  |-> [self EXCEPT !.level_2 =
                             WheelSchedule(@, AfterOffset(2, after), after, timer)]]
          [] level = 3 ->
               [panic |-> FALSE,
                self  |-> [self EXCEPT !.level_3 =
                             WheelSchedule(@, AfterOffset(3, after), after, timer)]]
          [] OTHER -> [panic |-> TRUE, self |-> self]

\* Faulty variant of Timers::now: it schedules one tick ahead.
TimersNow_NextTick(self, timer) == TimersAfter(self, 1, timer)

\* Timers::now: self.after(0, timer)
TimersNow(self, timer) == TimersAfter(self, 0, timer)

\* Faulty variant of the cascade loop: the drained timers are not re-inserted.
Cascade_Forgets(lower, timers) == lower

\* Timers::tick: the offset a cascade hands to TimingWheel::schedule.
CascadeOffset(tick) == tick + 1

\* Timers::tick: for (tick, item) in drained { lower.schedule(tick + 1, tick, item) }
RECURSIVE Cascade(_, _)
Cascade(lower, timers) ==
    IF timers = <<>>
    THEN lower
    ELSE Cascade(WheelSchedule(lower, CascadeOffset(Head(timers)[1]),
                               Head(timers)[1], Head(timers)[2]),
                 Tail(timers))

\* The one element of a singleton set.  { F(x) : x \in {e} } evaluates e
\* once and hands its value to F.
Only(S) == CHOOSE x \in S : TRUE

\* Timers::tick re-inserting what level 3 held into level 1, past level 2.
CascadeLevel_SkipsLevel(self, upper) ==
    CASE upper = 3 ->
           LET t == WheelTick(self.level_3)
           IN  [self EXCEPT !.level_3 = t.wheel,
                            !.level_1 = Cascade(@, t.timers)]
      [] upper = 2 ->
           LET t == WheelTick(self.level_2)
           IN  [self EXCEPT !.level_2 = t.wheel,
                            !.level_1 = Cascade(@, t.timers)]
      [] upper = 1 ->
           LET t == WheelTick(self.level_1)
           IN  [self EXCEPT !.level_1 = t.wheel,
                            !.level_0 = Cascade(@, t.timers)]

\* Timers::tick: drain the wheel of level `upper` and re-insert what it
\* held into the wheel below it.
CascadeLevel(self, upper) ==
    CASE upper = 3 ->
           LET t == WheelTick(self.level_3)
           IN  [self EXCEPT !.level_3 = t.wheel,
                            !.level_2 = Cascade(@, t.timers)]
      [] upper = 2 ->
           LET t == WheelTick(self.level_2)
           IN  [self EXCEPT !.level_2 = t.wheel,
                            !.level_1 = Cascade(@, t.timers)]
      [] upper = 1 ->
           LET t == WheelTick(self.level_1)
           IN  [self EXCEPT !.level_1 = t.wheel,
                            !.level_0 = Cascade(@, t.timers)]

\* The level-0 drain returning the timers of the slot without taking them.
DrainLevel0_KeepsSlot(self) ==
    LET t == WheelTick(self.level_0)
    IN  [self |-> [self EXCEPT !.level_0.current_tick = t.wheel.current_tick],
         out  |-> [k \in 1 .. Len(t.timers) |-> t.timers[k][2]]]

\* Timers::tick: self.level_0.tick().into_iter().map(|(_, x)| x).collect()
DrainLevel0(self) ==
    LET t == WheelTick(self.level_0)
    IN  [self |-> [self EXCEPT !.level_0 = t.wheel],
         out  |-> [k \in 1 .. Len(t.timers) |-> t.timers[k][2]]]

\* Timers::tick with the three cursor tests side by side instead of nested.
TimersTick_FlatTests(self) ==
    LET wrap0 == self.level_0.current_tick = 63
        wrap1 == self.level_1.current_tick = 63
        wrap2 == self.level_2.current_tick = 63
    IN  Only({ DrainLevel0(s1) :
          s1 \in { IF wrap0 THEN CascadeLevel(s2, 1) ELSE s2 :
            s2 \in { IF wrap1 THEN CascadeLevel(s3, 2) ELSE s3 :
              s3 \in { IF wrap2 THEN CascadeLevel(self, 3) ELSE self } } } })

\* Timers::tick cascading when level 0's cursor is 0 instead of 63.
TimersTick_WrapAtZero(self) ==
    LET wrap0 == self.level_0.current_tick = 0
        wrap1 == wrap0 /\ self.level_1.current_tick = 63
        wrap2 == wrap1 /\ self.level_2.current_tick = 63
    IN  Only({ DrainLevel0(s1) :
          s1 \in { IF wrap0 THEN CascadeLevel(s2, 1) ELSE s2 :
            s2 \in { IF wrap1 THEN CascadeLevel(s3, 2) ELSE s3 :
              s3 \in { IF wrap2 THEN CascadeLevel(self, 3) ELSE self } } } })

\* Timers::tick.  The nested ifs test the cursors before any wheel moves:
\* level 3 cascades first, then level 2, then level 1, then level 0 drains.
TimersTick(self) ==
    LET wrap0 == self.level_0.current_tick = 63
        wrap1 == wrap0 /\ self.level_1.current_tick = 63
        wrap2 == wrap1 /\ self.level_2.current_tick = 63
    IN  Only({ DrainLevel0(s1) :
          s1 \in { IF wrap0 THEN CascadeLevel(s2, 1) ELSE s2 :
            s2 \in { IF wrap1 THEN CascadeLevel(s3, 2) ELSE s3 :
              s3 \in { IF wrap2 THEN CascadeLevel(self, 3) ELSE self } } } })

\* ----------------------------------------------------------- the machine
\* Digit k of n in base 64: the cursor of level k after n idle ticks.
Digit(n, k) == (n \div (MAX_INTERVAL ^ k)) % MAX_INTERVAL

\* No revolution of level 0's cursor has been observed yet.
NoSpan ==
    [calls |-> 0, casc |-> 0, start |-> 0,
     l1 |-> FALSE, cur |-> FALSE, upper |-> FALSE]

\* RunTimers::default() and the empty histories.
RestInit ==
    /\ now = 0
    /\ sched = <<>>
    /\ delivered = <<>>
    /\ out = <<>>
    /\ panicked = FALSE
    /\ viaNow = {}
    /\ drains = <<>>
    /\ span = NoSpan
    /\ curr_timers = <<>>
    /\ lastRun = <<>>
    /\ ran = <<>>
    /\ phase = "ran"

\* Timers::default(), followed by n idle ticks for some n in StartTicks.
Init ==
    \E n \in StartTicks :
        /\ level_0 = TimingWheel(Digit(n, 0))
        /\ level_1 = TimingWheel(Digit(n, 1))
        /\ level_2 = TimingWheel(Digit(n, 2))
        /\ level_3 = TimingWheel(Digit(n, 3))
        /\ RestInit

\* Timers::default() and nothing else: the freshly created scheduler.
FreshInit ==
    /\ level_0 = TimingWheel(0)
    /\ level_1 = TimingWheel(0)
    /\ level_2 = TimingWheel(0)
    /\ level_3 = TimingWheel(0)
    /\ RestInit

Cursors == <<level_0.current_tick, level_1.current_tick,
             level_2.current_tick, level_3.current_tick>>

\* One call timers.after(after, w): w becomes timer Len(sched) + 1.
AfterCall(after) ==
    \E r \in {TimersAfter(Timers, after, Len(sched) + 1)} :
        /\ ~panicked
        /\ level_0' = r.self.level_0
        /\ level_1' = r.self.level_1
        /\ level_2' = r.self.level_2
        /\ level_3' = r.self.level_3
        /\ panicked' = r.panic
        /\ sched' = Append(sched, [after |-> after, at |-> now, cur |-> Cursors])
        /\ delivered' = Append(delivered, <<>>)
        /\ UNCHANGED <<now, out>>

\* Number of occurrences of x in the sequence s.
Count(s, x) == Cardinality({k \in 1 .. Len(s) : s[k] = x})

RECURSIVE Repeat(_, _)
Repeat(x, n) == IF n = 0 THEN <<>> ELSE <<x>> \o Repeat(x, n - 1)

\* One call of Timers::tick (RunTimers::initialize makes it once per update).
TickCall ==
    \E r \in {TimersTick(Timers)} :
        /\ ~panicked
        /\ level_0' = r.self.level_0
        /\ level_1' = r.self.level_1
        /\ level_2' = r.self.level_2
        /\ level_3' = r.self.level_3
        /\ now' = now + 1
        /\ out' = r.out
        /\ delivered' = [i \in 1 .. Len(delivered) |->
                           delivered[i] \o Repeat(now + 1, Count(r.out, i))]
        /\ UNCHANGED <<sched, panicked>>

\* One call timers.now(w): w becomes timer Len(sched) + 1.
NowCall ==
    \E r \in {TimersNow(Timers, Len(sched) + 1)} :
        /\ ~panicked
        /\ level_0' = r.self.level_0
        /\ level_1' = r.self.level_1
        /\ level_2' = r.self.level_2
        /\ level_3' = r.self.level_3
        /\ panicked' = r.panic
        /\ sched' = Append(sched, [after |-> 0, at |-> now, cur |-> Cursors])
        /\ delivered' = Append(delivered, <<>>)
        /\ UNCHANGED <<now, out>>

\* The wheel holds a timer in some slot.
NonEmpty(wheel) == \E s \in 0 .. MAX_INTERVAL - 1 : wheel.ring[s] # <<>>

\* Timer x is stored in some slot of the wheel.
InWheel(wheel, x) ==
    \E s \in 0 .. MAX_INTERVAL - 1 :
        \E k \in 1 .. Len(wheel.ring[s]) : wheel.ring[s][k][2] = x

\* The timers of a drained slot without their delays: map(|(_, x)| x).
TimerIds(timers) == [k \in 1 .. Len(timers) |-> timers[k][2]]

\* This Timers::tick call moved a timer from level 1 into level 0: level 0
\* holds, or the call returned, more than level 0 held before the call.
CascadedToLevel0 ==
    \/ level_0'.ring # [level_0.ring EXCEPT ![level_0.current_tick] = <<>>]
    \/ out' # TimerIds(level_0.ring[level_0.current_tick])

\* Timers::tick: what each TimingWheel::tick call it makes returns (the empty
\* sequence for a wheel it does not tick), as timer ordinals.
TickDrained(self) ==
    LET wrap0 == self.level_0.current_tick = 63
        wrap1 == wrap0 /\ self.level_1.current_tick = 63
        wrap2 == wrap1 /\ self.level_2.current_tick = 63
    IN  Only({ Only({ Only({
          [l3 |-> IF wrap2 THEN TimerIds(WheelTick(self.level_3).timers) ELSE <<>>,
           l2 |-> IF wrap1 THEN TimerIds(WheelTick(s3.level_2).timers) ELSE <<>>,
           l1 |-> IF wrap0 THEN TimerIds(WheelTick(s2.level_1).timers) ELSE <<>>,
           l0 |-> TimerIds(WheelTick(s1.level_0).timers)] :
            s1 \in { IF wrap0 THEN CascadeLevel(s2, 1) ELSE s2 } }) :
            s2 \in { IF wrap1 THEN CascadeLevel(s3, 2) ELSE s3 } }) :
            s3 \in { IF wrap2 THEN CascadeLevel(self, 3) ELSE self } })

\* The histories of one Timers::tick call: the levels each timer was
\* drained from, in the order of the drains, and the revolution of level
\* 0's cursor.  A revolution starts with the tick call made at cursor 0 and
\* records what level 1 and the levels above held before that call, the
\* number of calls so far and the number of them that moved timers from
\* level 1 into level 0.
TickHistory ==
    \E d \in {TickDrained(Timers)} :
        /\ drains' = [i \in 1 .. Len(sched) |->
                        (IF i \in DOMAIN drains THEN drains[i] ELSE <<>>)
                           \o Repeat(3, Count(d.l3, i)) \o Repeat(2, Count(d.l2, i))
                           \o Repeat(1, Count(d.l1, i)) \o Repeat(0, Count(d.l0, i))]
        /\ span' = IF level_0.current_tick = 0
                   THEN [calls |-> 1,
                         casc  |-> IF CascadedToLevel0 THEN 1 ELSE 0,
                         start |-> now,
                         l1    |-> NonEmpty(level_1),
                         cur   |-> level_1.ring[level_1.current_tick] # <<>>,
                         upper |-> NonEmpty(level_2) \/ NonEmpty(level_3)]
                   ELSE IF span.calls \in 1 .. MAX_INTERVAL - 1
                        THEN [span EXCEPT !.calls = @ + 1,
                                          !.casc = IF CascadedToLevel0 THEN @ + 1 ELSE @]
                        ELSE span

After ==
    /\ Len(sched) < MaxItems
    /\ now \in SchedTicks
    /\ \E after \in Delays : AfterCall(after)
    /\ UNCHANGED <<hist, host>>

Tick ==
    /\ now < MaxTicks
    /\ TickCall
    /\ UNCHANGED <<hist, host>>

Next == After \/ Tick

Spec == Init /\ [][Next]_vars

\* The same scheduler with the histories of its tick calls recorded, on the
\* delays that cascade within the first revolutions (and one rejected).
CascadeDelays == {0, 64, 2048, 8388671, 16777216}

CascadeAfter ==
    /\ Len(sched) < MaxItems
    /\ now \in SchedTicks
    /\ \E after \in CascadeDelays : AfterCall(after)
    /\ UNCHANGED <<hist, host>>

CascadeTick ==
    /\ now < MaxTicks
    /\ TickCall
    /\ TickHistory
    /\ UNCHANGED <<viaNow, host>>

CascadeNext == CascadeAfter \/ CascadeTick

CascadeSpec == Init /\ [][CascadeNext]_vars

\* RouteSpec: Timers::after on a wide set of delays, between a few ticks.
RouteAfter ==
    /\ Len(sched) < MaxItems
    /\ \E after \in RouteDelays : AfterCall(after)
    /\ UNCHANGED <<hist, host>>

RouteNow ==
    /\ Len(sched) < MaxItems
    /\ NowCall
    /\ viaNow' = viaNow \cup {Len(sched) + 1}
    /\ UNCHANGED <<drains, span, host>>

RouteTick ==
    /\ now \in SchedTicks
    /\ TickCall
    /\ UNCHANGED <<hist, host>>

RouteNext == RouteAfter \/ RouteNow \/ RouteTick

RouteSpec == Init /\ [][RouteNext]_vars

\* LiveSpec: the host calls Timers::tick on every update, for as long as a
\* wheel holds a timer.  To keep the run to a timer's delivery short, a
\* delay routed above level 0 is scheduled only when every lower level is
\* one tick before its wrap.
AboutToWrap(level) ==
    \A k \in 1 .. level : Cursors[k] = MAX_INTERVAL - 1

LiveAfter ==
    /\ Len(sched) < MaxItems
    /\ now \in SchedTicks
    /\ \E after \in LiveDelays :
          /\ AboutToWrap(AfterLevel(after))
          /\ AfterCall(after)
    /\ UNCHANGED <<hist, host>>

HostTick ==
    /\ \/ now \in SchedTicks
       \/ NonEmpty(level_0) \/ NonEmpty(level_1)
       \/ NonEmpty(level_2) \/ NonEmpty(level_3)
    /\ TickCall
    /\ UNCHANGED <<hist, host>>

LiveNext == LiveAfter \/ HostTick

LiveSpec == Init /\ [][LiveNext]_vars /\ WF_vars(HostTick)


\* ------------------------------------------------- vocabulary of the claims
Ids == 1 .. Len(sched)

\* 64^4: the first delay Timers::after is specified to refuse.
Capacity == MAX_INTERVAL ^ 4

\* The delay of timer i is inside the scheduler's span.
InSpan(i) == sched[i].after < Capacity

\* The intended absolute tick of timer i: ticks elapsed when it was
\* scheduled plus its delay.  The (d+1)-th tick call after the schedule
\* call is tick call number AbsTick(i) + 1.
AbsTick(i) == sched[i].at + sched[i].after
DueCall(i) == AbsTick(i) + 1

\* Timer i has been returned by exactly its due call, once that call is made.
OnTime(i) == delivered[i] = IF now >= DueCall(i) THEN <<DueCall(i)>> ELSE <<>>

\* The position of timer x in the sequence s (0 when absent).
Pos(s, x) == IF \E k \in 1 .. Len(s) : s[k] = x
             THEN CHOOSE k \in 1 .. Len(s) : s[k] = x
             ELSE 0

\* Timer i was scheduled on a freshly created scheduler.
Fresh(i) == i = 1 /\ sched[1].at = 0 /\ sched[1].cur = <<0, 0, 0, 0>>

\* C1: a timer scheduled with a delay d in [0, 64), from any state and
\* whatever else is scheduled, is returned by the (d+1)-th following tick
\* call and by no other call.
C1_SingleTickDelivery ==
    \A i \in Ids : sched[i].after < MAX_INTERVAL => OnTime(i)

\* A delay-63 timer was delivered on its due call, next to a timer that
\* lives in a higher level, and ticks went on after the delivery.
C1_Witness ==
    \E i, j \in Ids :
        /\ sched[i].after = 63
        /\ sched[j].after >= MAX_INTERVAL
        /\ delivered[i] = <<DueCall(i)>>
        /\ now > DueCall(i)

\* C2: on a fresh scheduler a timer with delay 100 is returned by the
\* 101st tick call and by no other.
C2_CascadeAt101 ==
    \A i \in Ids : (Fresh(i) /\ sched[i].after = 100) => OnTime(i)

\* C3: a timer with a delay d in [64, 64^4), from any state, is returned by
\* exactly the (d+1)-th following tick call.
C3_CascadedOnTime ==
    \A i \in Ids : (sched[i].after >= MAX_INTERVAL /\ InSpan(i)) => OnTime(i)

\* C4: a timer with delay d is returned by none of the first d tick calls
\* that follow its schedule call.
C4_NoEarlyFiring ==
    \A i \in Ids :
        InSpan(i) =>
            \A k \in 1 .. Len(delivered[i]) : delivered[i][k] >= DueCall(i)

\* C5: of two timers with different intended absolute ticks, the one with
\* the smaller tick is returned by a strictly earlier tick call.
C5_TickOrder ==
    \A i, j \in Ids :
        (InSpan(i) /\ InSpan(j) /\ AbsTick(i) < AbsTick(j) /\ delivered[j] # <<>>)
            => (delivered[i] # <<>> /\ delivered[i][1] < delivered[j][1])

\* C6: of two timers with the same intended absolute tick, the one
\* scheduled first is executed first, whatever levels they pass through.
C6_SameTickFifo ==
    \A i, j \in Ids :
        (i < j /\ InSpan(i) /\ InSpan(j) /\ AbsTick(i) = AbsTick(j)
               /\ delivered[j] # <<>>)
            => /\ delivered[i] # <<>>
               /\ delivered[i][1] <= delivered[j][1]
               /\ (delivered[i][1] = now /\ delivered[j][1] = now)
                     => Pos(out, i) < Pos(out, j)

\* C7: timers scheduled with the same delay d in [0, 64) and no tick call
\* between their schedule calls are returned together by the (d+1)-th
\* call, in the order of their schedule calls.
C7_SlotFifo ==
    \A i, j \in Ids :
        (i < j /\ sched[i].after = sched[j].after /\ sched[i].at = sched[j].at
               /\ sched[i].after < MAX_INTERVAL)
            => /\ OnTime(i) /\ OnTime(j)
               /\ now = DueCall(i) =>
                     (Pos(out, i) > 0 /\ Pos(out, i) < Pos(out, j))

\* Every timer was scheduled with delay 3 in one go, and the tick call
\* that just returned is the fourth: it returned them all in call order.
C7_Witness ==
    /\ Len(sched) >= 2
    /\ \A i \in Ids : sched[i].after = 3 /\ sched[i].at = sched[1].at
    /\ now = DueCall(1)
    /\ out = [k \in 1 .. Len(sched) |-> k]


\* The four wheels, level k at index k + 1.
Wheels == <<level_0, level_1, level_2, level_3>>

\* This step is a Timers::after call.
IsAfterStep == Len(sched') = Len(sched) + 1

\* The level the ranges of the specification assign to a delay below 64^4.
SpanLevel(d) ==
    CASE d <= 63 -> 0
      [] d >= 64 /\ d <= 4095 -> 1
      [] d >= 4096 /\ d <= 262143 -> 2
      [] d >= 262144 /\ d <= 16777215 -> 3

\* C8: Timers::after with delay 64^4 - 1 succeeds and stores the timer in
\* level 3; with any delay >= 64^4 it panics and changes no slot and no
\* cursor of any wheel.
C8_CapacityBoundary ==
    [][IsAfterStep =>
         LET d == sched'[Len(sched')].after
         IN  /\ d >= Capacity => (panicked' /\ Wheels' = Wheels)
             /\ d < Capacity => ~panicked'
             /\ d = Capacity - 1 => InWheel(level_3', Len(sched'))]_vars

\* A timer with delay 64^4 - 1 sits in level 3, and a later call with a
\* delay of 64^4 or more has panicked.
C8_Witness ==
    /\ panicked
    /\ sched[Len(sched)].after >= Capacity
    /\ \E i \in Ids : sched[i].after = Capacity - 1 /\ InWheel(level_3, i)

\* C9: every timer Timers::after accepted is eventually returned by a tick
\* call, as long as the host keeps ticking, and it is returned by one call
\* only and once in that call's result.
C9_EventuallyOnce ==
    /\ \A i \in 1 .. MaxItems :
          [](Len(sched) >= i => <>(Len(sched) >= i /\ delivered[i] # <<>>))
    /\ [](\A i \in Ids : Len(delivered[i]) <= 1)

\* A timer that went through level 3, level 2 and level 1 has been
\* delivered, thousands of ticks after it was scheduled.
C9_Witness ==
    \E i \in Ids :
        /\ sched[i].after = 8388608
        /\ Len(delivered[i]) = 1
        /\ delivered[i][1] > MAX_INTERVAL * MAX_INTERVAL

\* C10: Timers::after puts a delay in [0, 63] into level 0, in [64, 4095]
\* into level 1, in [4096, 262143] into level 2 and in [262144, 16777215]
\* into level 3, and changes no other wheel.
C10_LevelRouting ==
    [][(IsAfterStep /\ sched'[Len(sched')].after < Capacity) =>
         \A k \in 0 .. 3 :
            IF k = SpanLevel(sched'[Len(sched')].after)
            THEN /\ InWheel(Wheels'[k + 1], Len(sched'))
                 /\ ~InWheel(Wheels[k + 1], Len(sched'))
            ELSE Wheels'[k + 1] = Wheels[k + 1]]_vars

\* Timers on both sides of the level 1 / level 2 boundary, each in its level.
C10_Witness ==
    \E i, j \in Ids :
        /\ sched[i].after = 4095 /\ InWheel(level_1, i)
        /\ sched[j].after = 4096 /\ InWheel(level_2, j)

\* This step is a Timers::now call.
IsNowStep == viaNow' # viaNow

\* C11: Timers::now(w) leaves the scheduler in the state Timers::after(0, w)
\* would: w at the back of level 0's current slot with residual 0 and nothing
\* else changed; and w is returned by the very next tick call and by no
\* other, also when that call is made at cursor 63 and cascades.
C11_NowIsAfterZero ==
    /\ [][IsNowStep =>
            /\ ~panicked'
            /\ Wheels' = <<TimersAfter(Timers, 0, Len(sched')).self.level_0,
                           level_1, level_2, level_3>>
            /\ level_0' = [level_0 EXCEPT !.ring[level_0.current_tick] =
                                            Append(@, <<0, Len(sched')>>)]]_vars
    /\ [](\A i \in viaNow :
             delivered[i] = IF now > sched[i].at THEN <<sched[i].at + 1>> ELSE <<>>)

\* A timer scheduled through Timers::now at cursor 63 was returned by the
\* next tick call, the call that cascaded a level-1 timer into level 0.
C11_Witness ==
    \E i \in viaNow : \E j \in Ids :
        /\ sched[i].cur[1] = MAX_INTERVAL - 1
        /\ delivered[i] = <<sched[i].at + 1>>
        /\ now = sched[i].at + 1
        /\ sched[j].after = 2048 /\ sched[j].at = sched[i].at
        /\ InWheel(level_0, j)

\* Timer i has been cascaded out of a level above 0.
Cascaded(i) ==
    i \in DOMAIN drains /\ \E k \in 1 .. Len(drains[i]) : drains[i][k] >= 1

\* C12: every offset handed to TimingWheel::schedule, by Timers::after and
\* by the cascades of Timers::tick, lies in [0, 64).
C12_OffsetsInRange ==
    \A i \in Ids :
        InSpan(i) =>
            /\ AfterOffset(AfterLevel(sched[i].after), sched[i].after)
                  \in 0 .. MAX_INTERVAL - 1
            /\ Cascaded(i) =>
                  CascadeOffset(sched[i].after) \in 0 .. MAX_INTERVAL - 1

\* Timer x is stored in slot s of the wheel.
InSlot(wheel, s, x) ==
    \E k \in 1 .. Len(wheel.ring[s]) : wheel.ring[s][k][2] = x

\* C13: Timers::after puts a delay routed to level L in {1, 2, 3} into slot
\* (cursor_L + (delay >> 6L)) mod 64 of level L, and a delay routed to level
\* 0 into slot (cursor_0 + delay) mod 64.  Checked before the next tick call.
C13_SlotSelection ==
    \A i \in Ids :
        (InSpan(i) /\ now = sched[i].at) =>
            LET L == SpanLevel(sched[i].after)
            IN  InSlot(Wheels[L + 1],
                       (sched[i].cur[L + 1] + Shr(sched[i].after, 6 * L))
                          % MAX_INTERVAL,
                       i)

\* ------------------------------------------------------------ the cursors
\* A freshly created scheduler ticked through more than one revolution of
\* level 2, with at most one timer scheduled on the way.
MaxClockTicks == 262208
ClockDelays == {1, 4096}
ClockCalls == {0, 63}

ClockAfter ==
    /\ sched = <<>>
    /\ now \in ClockCalls
    /\ \E after \in ClockDelays : AfterCall(after)
    /\ UNCHANGED <<hist, host>>

ClockTick ==
    /\ now < MaxClockTicks
    /\ TickCall
    /\ UNCHANGED <<hist, host>>

ClockNext == ClockAfter \/ ClockTick

ClockSpec == FreshInit /\ [][ClockNext]_vars

\* This step is a Timers::tick call.
IsTickStep == now' = now + 1

\* C14: every cursor stays in [0, 64); after n tick calls on a fresh
\* scheduler the cursor of level k is floor(n / 64^k) mod 64; a tick call
\* advances level k+1 exactly when levels 0..k all wrap in it; and
\* Timers::after changes no cursor.
C14_CursorsAreDigits ==
    /\ [](\A k \in 0 .. 3 :
             /\ Cursors[k + 1] \in 0 .. MAX_INTERVAL - 1
             /\ Cursors[k + 1] = Digit(now, k))
    /\ [][IsTickStep =>
            /\ Cursors'[1] = (Cursors[1] + 1) % MAX_INTERVAL
            /\ \A k \in 1 .. 3 :
                 IF \A j \in 1 .. k : Cursors[j] = MAX_INTERVAL - 1 /\ Cursors'[j] = 0
                 THEN Cursors'[k + 1] = (Cursors[k + 1] + 1) % MAX_INTERVAL
                 ELSE Cursors'[k + 1] = Cursors[k + 1]]_vars
    /\ [][IsAfterStep => Cursors' = Cursors]_vars

\* Level 3's cursor has advanced once and level 1's has started its second
\* revolution since, with a timer scheduled on the way.
C14_Witness ==
    /\ now = 262208
    /\ Cursors = <<0, 1, 0, 1>>
    /\ sched # <<>>

\* ------------------------------------------------------- the wraparound
\* Nothing was scheduled during the recorded revolution of level 0.
SpanQuiet ==
    \A i \in Ids :
        sched[i].at <= span.start \/ sched[i].at >= span.start + MAX_INTERVAL

\* C15 as stated: 64 tick calls from cursor 0 bring level 0's cursor back to
\* 0, and timers are cascaded from level 1 into level 0 in exactly one of
\* them if and only if some slot of level 1 held a timer at the start; if
\* level 1 was empty none is cascaded.  Read with nothing scheduled during
\* the 64 calls.
C15_AsStated ==
    (span.calls = MAX_INTERVAL /\ SpanQuiet) =>
        /\ level_0.current_tick = 0
        /\ span.casc = 1 <=> span.l1
        /\ ~span.l1 => span.casc = 0

\* C15: 64 tick calls from cursor 0 bring level 0's cursor back to 0; only
\* the 64th can cascade timers from level 1 into level 0; it does if the
\* slot at level 1's cursor held a timer at the start, and it does not if
\* that slot was empty, levels 2 and 3 were empty and nothing was scheduled
\* during the 64 calls.  Timers in other slots of level 1 stay there.
C15_WrapCascade ==
    /\ span.calls \in 1 .. MAX_INTERVAL - 1 => span.casc = 0
    /\ span.calls = MAX_INTERVAL =>
          /\ level_0.current_tick = 0
          /\ span.casc <= 1
          /\ span.cur => span.casc = 1
          /\ (SpanQuiet /\ ~span.cur /\ ~span.upper) =>
                /\ span.casc = 0
                /\ \A i \in Ids :
                     (sched[i].at <= span.start /\ SpanLevel(sched[i].after) = 1
                        /\ delivered[i] = <<>>) => InWheel(level_1, i)

\* A revolution that cascaded the timer found at level 1's cursor, and one
\* that left a timer in another slot of level 1 where it was.
C15_Witness ==
    /\ span.calls = MAX_INTERVAL
    /\ span.cur /\ span.casc = 1
    /\ \E i \in Ids : sched[i].at <= span.start /\ InWheel(level_1, i)

\* ------------------------------------------------- the non-wrapping tick
\* C16: a tick call made while level 0's cursor is not 63 returns exactly
\* the contents of level 0's current slot in insertion order, leaves that
\* slot empty, advances level 0's cursor by 1, and changes no other slot of
\* level 0 and nothing of levels 1, 2 and 3.
C16_PlainTick ==
    [][(IsTickStep /\ level_0.current_tick # MAX_INTERVAL - 1) =>
          /\ out' = TimerIds(level_0.ring[level_0.current_tick])
          /\ level_0'.ring[level_0.current_tick] = <<>>
          /\ level_0'.current_tick = level_0.current_tick + 1
          /\ \A s \in (0 .. MAX_INTERVAL - 1) \ {level_0.current_tick} :
                level_0'.ring[s] = level_0.ring[s]
          /\ UNCHANGED <<level_1, level_2, level_3>>]_vars

\* A non-wrapping tick call has just returned the timer of its slot and
\* left the level-1 timer scheduled before the call where it was.
C16_Witness ==
    /\ out = <<1>>
    /\ sched[1].after = 3
    /\ now = sched[1].at + 4
    /\ level_0.current_tick # 0
    /\ level_0.ring[(level_0.current_tick + MAX_INTERVAL - 1) % MAX_INTERVAL] = <<>>
    /\ Len(sched) = 2 /\ sched[2].at < now /\ InWheel(level_1, 2)

\* ------------------------------------------------------ the way down
\* The levels timer i has been drained from so far, oldest first.
DrainsOf(i) == IF i \in DOMAIN drains THEN drains[i] ELSE <<>>

\* C17: a timer is drained first from the level Timers::after put it in and
\* then from each level below it in turn, one level at a time, each level
\* at most once, so at most 4 times; between drains it is stored in the
\* level below the last one it was drained from, and the drain of level 0
\* returns it.
C17_DownwardCascade ==
    \A i \in Ids :
        InSpan(i) =>
            \E L \in {SpanLevel(sched[i].after)} : \E ds \in {DrainsOf(i)} :
                /\ Len(ds) <= L + 1
                /\ Len(ds) <= 4
                /\ \A k \in 1 .. Len(ds) : ds[k] = L - (k - 1)
                /\ Len(ds) <= L =>
                      /\ \E wheel \in {Wheels[L - Len(ds) + 1]} : InWheel(wheel, i)
                      /\ delivered[i] = <<>>
                /\ Len(ds) = L + 1 => delivered[i] # <<>>

\* A level-3 timer has been drained from levels 3, 2, 1 and 0, in that
\* order, and a level-1 timer from levels 1 and 0.
C17_Witness ==
    \E i, j \in Ids :
        /\ DrainsOf(i) = <<3, 2, 1, 0>>
        /\ DrainsOf(j) = <<1, 0>>

\* ------------------------------------------------------- conservation
\* The slots (wheel, slot) that hold timers.
Filled ==
    UNION { { <<w, s>> : s \in { x \in 0 .. MAX_INTERVAL - 1 :
                                    Wheels[w].ring[x] # <<>> } } :
            w \in 1 .. 4 }

\* The slots (wheel, slot) in which timer i is stored.
Stored(i) == {p \in Filled : InSlot(Wheels[p[1]], p[2], i)}

\* C18: every accepted timer that has not been returned is stored in exactly
\* one slot of exactly one wheel, once, with the delay it was scheduled
\* with; a returned timer is stored nowhere and was returned once; a
\* rejected timer is stored nowhere; and the wheels hold nothing else.
C18_Conservation ==
    \E filled \in {Filled} :
       /\ \A i \in Ids :
             \E st \in {{p \in filled : InSlot(Wheels[p[1]], p[2], i)}} :
                /\ (InSpan(i) /\ delivered[i] = <<>>) =>
                      /\ Cardinality(st) = 1
                      /\ \A p \in st :
                           \E slot \in {Wheels[p[1]].ring[p[2]]} :
                              /\ Count(TimerIds(slot), i) = 1
                              /\ \A k \in 1 .. Len(slot) :
                                   slot[k][2] = i => slot[k][1] = sched[i].after
                /\ (InSpan(i) /\ delivered[i] # <<>>) =>
                      Len(delivered[i]) = 1 /\ st = {}
                /\ ~InSpan(i) => st = {} /\ delivered[i] = <<>>
       /\ \A p \in filled :
             \A k \in 1 .. Len(Wheels[p[1]].ring[p[2]]) :
                Wheels[p[1]].ring[p[2]][k][2] \in Ids
       /\ \A k \in 1 .. Len(out) : Count(out, out[k]) = 1

\* One timer has been returned and is stored nowhere while another, already
\* cascaded out of the level it was scheduled in, is stored in one slot.
C18_Witness ==
    \E i, j \in Ids :
        /\ delivered[i] # <<>> /\ Stored(i) = {}
        /\ Cascaded(j) /\ delivered[j] = <<>> /\ Cardinality(Stored(j)) = 1

\* ------------------------------------------------------- the RunTimers stage
\* The host calls initialize and run of the stage once per update, in that
\* order; systems and running timers schedule timers in between, during
\* the first updates.  A second run without an initialize before it is
\* allowed, to see what it does.
HostDelays == {0, 1, 64, 2048}

\* RunTimers::run iterating over curr_timers without taking them.
RunTimersRun_Borrows(curr) == [executed |-> curr, curr_timers |-> curr]

\* RunTimers::run: for timer in mem::take(&mut self.curr_timers) { timer.run }
RunTimersRun(curr) == [executed |-> curr, curr_timers |-> <<>>]

\* The updates in which timer i has been executed so far.
RanOf(i) == IF i \in DOMAIN ran THEN ran[i] ELSE <<>>

HostAfter ==
    /\ Len(sched) < MaxItems
    /\ now \in SchedTicks
    /\ \E after \in HostDelays : AfterCall(after)
    /\ UNCHANGED <<hist, host>>

\* RunTimers::initialize: one Timers::tick; what it returns becomes
\* curr_timers.
HostInitialize ==
    /\ phase = "ran"
    /\ now < MaxTicks
    /\ TickCall
    /\ curr_timers' = out'
    /\ phase' = "initialized"
    /\ UNCHANGED <<hist, lastRun, ran>>

HostRun ==
    \E r \in {RunTimersRun(curr_timers)} :
        /\ ~panicked
        /\ lastRun' = r.executed
        /\ curr_timers' = r.curr_timers
        /\ ran' = [i \in 1 .. Len(sched) |->
                     RanOf(i) \o Repeat(now, Count(r.executed, i))]
        /\ phase' = "ran"
        /\ UNCHANGED <<level_0, level_1, level_2, level_3, now, sched,
                       delivered, out, panicked, hist>>

HostNext == HostAfter \/ HostInitialize \/ HostRun

HostSpec == Init /\ [][HostNext]_vars

\* This step is a RunTimers::run call (one that changes anything).
IsRunStep == sched' = sched /\ now' = now

\* C19: each RunTimers::initialize makes exactly one Timers::tick call and
\* keeps what it returned; the run that follows executes every returned
\* timer once, in the order returned, and leaves curr_timers empty; a run
\* with no initialize before it executes nothing; so every returned timer
\* is executed in the update that returned it and in no other.
C19_StageRunsReturned ==
    /\ [](/\ phase = "ran" =>
               /\ curr_timers = <<>>
               /\ \A i \in Ids : RanOf(i) = delivered[i]
          /\ phase = "initialized" =>
               /\ curr_timers = out
               /\ \A i \in Ids :
                    delivered[i] = RanOf(i) \o Repeat(now, Count(out, i)))
    /\ [][IsTickStep =>
            /\ phase = "ran" /\ phase' = "initialized"
            /\ Wheels' = <<TimersTick(Timers).self.level_0,
                           TimersTick(Timers).self.level_1,
                           TimersTick(Timers).self.level_2,
                           TimersTick(Timers).self.level_3>>
            /\ curr_timers' = TimersTick(Timers).out]_vars
    /\ [][IsRunStep =>
            /\ lastRun' = IF phase = "initialized" THEN out ELSE <<>>
            /\ curr_timers' = <<>>
            /\ phase' = "ran"]_vars

\* An update has returned two timers and its run has executed both, in the
\* order returned and in that update only, after an earlier update.
C19_Witness ==
    /\ phase = "ran"
    /\ now >= 2
    /\ lastRun = <<1, 2>>
    /\ out = <<1, 2>>
    /\ curr_timers = <<>>
    /\ ran = <<<<now>>, <<now>>>>

=============================================================================
